---- MODULE Spec2Model ----
(***************************************************************************)
(* Model of the vector store facade (src/vector_store.py, class            *)
(* VectorStore) and of the HTTP handlers layered over it                   *)
(* (src/vector_service.py).                                                *)
(*                                                                         *)
(* The two ChromaDB collections are sets of chunk records.  A chunk id     *)
(* f"{document_id}_chunk_{i}" is the pair <<document_id, i>>: the format   *)
(* string is injective in (document_id, i), and so is the pair.            *)
(* Every call into the store or the embedding model may raise; the         *)
(* handlers' try/except blocks are translated branch by branch.            *)
(***************************************************************************)
EXTENDS Integers, Sequences, FiniteSets, TLC

(* ------------------------------ bounds -------------------------------- *)

\* longest chunk list passed to add_document_chunks
MaxChunks == 2
\* largest top_k / contract_top_k / policy_top_k passed to a search
MaxTopK == 2
\* number of handler invocations explored in one run of the service
MaxOps == 3

(* ------------------------------ inputs -------------------------------- *)

\* Python's None
None == "None"

\* document ids, in the order used to list a collection
DocOrder == <<"d1", "d2">>
Docs == {DocOrder[i] : i \in 1..Len(DocOrder)}
DocRank(d) == CHOOSE i \in 1..Len(DocOrder) : DocOrder[i] = d

Names == {"n1"}
Queries == {"a"}
\* document_type is an unvalidated string (DocumentChunksRequest.document_type)
DocTypes == {"contract", "policy"}
CollectionTypes == {"contract", "policy"}
\* the text of the chunks of a document cut into n chunks
TextOf(n) == IF n % 2 = 1 THEN "a" ELSE "b"
\* chunk lists: one per length up to MaxChunks, lists of different lengths
\* having different texts
ChunkLists == {[i \in 1..n |-> TextOf(n)] : n \in 0..MaxChunks}
TopKs == 1..MaxTopK

(* --------------------------- embedding model -------------------------- *)

\* similarity_score = 1 - distance; distances are counted in tenths, so 1 is 10
One == 10

\* SentenceTransformer.encode as a fixed (deterministic) map of text to a point
Embedding(text) ==
    CASE text = "a" -> 0
      [] text = "b" -> 7
      [] OTHER -> 13

\* the distance the store reports between a query embedding and a chunk embedding
Distance(e1, e2) == IF e1 >= e2 THEN e1 - e2 ELSE e2 - e1

(* ----------------------------- chunk records --------------------------- *)

\* chunk_id = f"{document_id}_chunk_{i}"
ChunkId(document_id, i) == <<document_id, i>>

\* Python's `x or default`: None and the empty string are falsy
OrDefault(x, default) == IF x = None \/ x = "" THEN default ELSE x

\* the metadata dict built for chunk i (0-based) of a document
ChunkMetadata(document_id, document_name, document_type, i, chunk, clause_type, risk_level, policy_id) ==
    LET metadata == [document_id   |-> document_id,
                     document_name |-> document_name,
                     document_type |-> document_type,
                     chunk_index   |-> i,
                     chunk_length  |-> Len(chunk),
                     section_label |-> <<"chunk", i + 1>>]
    IN  IF document_type = "policy"
        THEN metadata @@ [clause_type |-> OrDefault(clause_type, "general"),
                          risk_level  |-> OrDefault(risk_level, "medium"),
                          policy_id   |-> OrDefault(policy_id, document_id)]
        ELSE metadata

\* the records handed to collection.add for a chunk list
NewRecords(document_id, document_name, chunks, document_type, clause_type, risk_level, policy_id) ==
    {[id        |-> ChunkId(document_id, i - 1),
      embedding |-> Embedding(chunks[i]),
      document  |-> chunks[i],
      metadata  |-> ChunkMetadata(document_id, document_name, document_type,
                                  i - 1, chunks[i],
                                  clause_type, risk_level, policy_id)]
        : i \in 1..Len(chunks)}

(* ------------------------ the store (ChromaDB) ------------------------- *)

\* collection = self.contract_collection if document_type == "contract"
\*              else self.policy_collection
SelectCollection(document_type) ==
    IF document_type = "contract" THEN "contract" ELSE "policy"

Ids(recs) == {r.id : r \in recs}

\* CollectionDelete deleting by the id of the first chunk instead of by filter
CollectionDeleteFirstId(coll, document_id) ==
    {r \in coll : r.id # ChunkId(document_id, 0)}

\* collection.delete(where={"document_id": document_id})
CollectionDelete(coll, document_id) ==
    {r \in coll : r.metadata.document_id # document_id}

\* collection.add(embeddings, metadatas, ids, documents).  For an id that is
\* already present the store either replaces the record (the upsert of the
\* store contract) or keeps the existing one (ChromaDB >= 0.4): `overwrite`
\* selects the outcome.
CollectionAdd(coll, recs, overwrite) ==
    IF overwrite
    THEN {r \in coll : r.id \notin Ids(recs)} \cup recs
    ELSE coll \cup {r \in recs : r.id \notin Ids(coll)}

\* where=None matches every record, where={"document_id": d} those of d
Matches(r, where) == where = None \/ r.metadata.document_id = where

\* order of the records of a collection: by document, then by chunk index
IdKey(r) == DocRank(r.id[1]) * (MaxChunks + 1) + r.id[2]

\* the elements of S as a list, smallest key first (key is injective on S)
RECURSIVE SeqOfSet(_, _)
SeqOfSet(S, key) ==
    IF S = {} THEN <<>>
    ELSE LET first == CHOOSE r \in S : \A o \in S : key[r] <= key[o]
         IN  <<first>> \o SeqOfSet(S \ {first}, key)

\* collection.get(where=...): the matching records, as parallel lists
CollectionGet(coll, where) ==
    LET S == {r \in coll : Matches(r, where)}
    IN  SeqOfSet(S, [r \in S |-> IdKey(r)])

\* collection.query(query_embeddings=[e], n_results=k, where=...): the k
\* nearest matching records, nearest first (ties in id order)
CollectionQuery(coll, e, k, where) ==
    LET S == {r \in coll : Matches(r, where)}
        idKeys == (Len(DocOrder) + 1) * (MaxChunks + 1)
        ranked == SeqOfSet(S, [r \in S |->
                      Distance(e, r.embedding) * idKeys + IdKey(r)])
        n == IF Len(ranked) < k THEN Len(ranked) ELSE k
    IN  [i \in 1..n |-> [id       |-> ranked[i].id,
                         document |-> ranked[i].document,
                         metadata |-> ranked[i].metadata,
                         distance |-> Distance(e, ranked[i].embedding)]]

(* ------------------------- VectorStore (facade) ------------------------ *)

\* the attributes VectorStore.__init__ sets on self
VectorStoreAttrs == {"persist_directory", "embedding_model", "client",
                     "contract_collection", "policy_collection"}

\* self.<name> for the collection attributes; st is the pair of collections
SelfAttr(st, name) ==
    CASE name = "contract_collection" -> st.contract
      [] name = "policy_collection" -> st.policy

\* the calls a facade operation makes that can raise
StoreCalls == {"delete", "embed", "add", "query", "get", "reset"}

\* DeleteDocumentChunks deleting the document from both collections
DeleteDocumentChunksBoth(st, document_id, document_type, fails) ==
    IF fails
    THEN [store |-> st, ret |-> FALSE]
    ELSE [store |-> [c \in DOMAIN st |->
                        {r \in st[c] : r.metadata.document_id # document_id}],
          ret   |-> TRUE]

\* DeleteDocumentChunks with the two collections swapped
DeleteDocumentChunksSwapped(st, document_id, document_type, fails) ==
    IF fails
    THEN [store |-> st, ret |-> FALSE]
    ELSE [store |-> [st EXCEPT ![IF document_type = "contract"
                                 THEN "policy" ELSE "contract"] =
                                  {r \in @ : r.metadata.document_id # document_id}],
          ret   |-> TRUE]

\* _delete_document_chunks(document_id, document_type): `fails` says whether
\* collection.delete raises
DeleteDocumentChunks(st, document_id, document_type, fails) ==
    IF fails
    THEN [store |-> st, ret |-> FALSE]
    ELSE [store |-> [st EXCEPT ![SelectCollection(document_type)] =
                                  CollectionDelete(@, document_id)],
          ret   |-> TRUE]

\* AddDocumentChunks clearing the document from both collections before the
\* insert, so that the document moves to the selected collection
AddDocumentChunksMigrating(st, document_id, document_name, chunks, document_type, clause_type, risk_level, policy_id, faults, overwrite) ==
    LET deleted == DeleteDocumentChunksBoth(st, document_id, document_type,
                                            "delete" \in faults).store
        delFailed == faults \cap {"delete"}
        collection == SelectCollection(document_type)
    IN  IF chunks = <<>>
        THEN [store |-> deleted, ret |-> TRUE, failed |-> delFailed]
        ELSE IF "embed" \in faults
        THEN [store |-> deleted, ret |-> FALSE,
              failed |-> delFailed \cup {"embed"}]
        ELSE IF "add" \in faults
        THEN [store |-> deleted, ret |-> FALSE,
              failed |-> delFailed \cup {"add"}]
        ELSE [store |-> [deleted EXCEPT ![collection] =
                            CollectionAdd(@, NewRecords(document_id,
                                document_name, chunks, document_type,
                                clause_type, risk_level, policy_id),
                                overwrite)],
              ret |-> TRUE, failed |-> delFailed]

\* AddDocumentChunks whose failing insert has already stored the first chunk
AddDocumentChunksPartial(st, document_id, document_name, chunks, document_type, clause_type, risk_level, policy_id, faults, overwrite) ==
    LET deleted == DeleteDocumentChunks(st, document_id, document_type,
                                        "delete" \in faults).store
        delFailed == faults \cap {"delete"}
        collection == SelectCollection(document_type)
        recs == NewRecords(document_id, document_name, chunks, document_type,
                           clause_type, risk_level, policy_id)
    IN  IF chunks = <<>>
        THEN [store |-> deleted, ret |-> TRUE, failed |-> delFailed]
        ELSE IF "embed" \in faults
        THEN [store |-> deleted, ret |-> FALSE,
              failed |-> delFailed \cup {"embed"}]
        ELSE IF "add" \in faults
        THEN [store |-> [deleted EXCEPT ![collection] =
                            CollectionAdd(@, {r \in recs : r.id[2] = 0},
                                          overwrite)],
              ret |-> FALSE, failed |-> delFailed \cup {"add"}]
        ELSE [store |-> [deleted EXCEPT ![collection] =
                            CollectionAdd(@, recs, overwrite)],
              ret |-> TRUE, failed |-> delFailed]

\* add_document_chunks: faults is the set of calls that raise when issued;
\* `failed` reports the calls that were issued and raised
AddDocumentChunks(st, document_id, document_name, chunks, document_type, clause_type, risk_level, policy_id, faults, overwrite) ==
    LET \* line 128: the result of _delete_document_chunks is dropped
        deleted == DeleteDocumentChunks(st, document_id, document_type,
                                        "delete" \in faults).store
        delFailed == faults \cap {"delete"}
        collection == SelectCollection(document_type)
    IN  IF chunks = <<>>
        THEN [store |-> deleted, ret |-> TRUE, failed |-> delFailed]
        ELSE IF "embed" \in faults
        THEN [store |-> deleted, ret |-> FALSE,
              failed |-> delFailed \cup {"embed"}]
        ELSE IF "add" \in faults
        THEN [store |-> deleted, ret |-> FALSE,
              failed |-> delFailed \cup {"add"}]
        ELSE [store |-> [deleted EXCEPT ![collection] =
                            CollectionAdd(@, NewRecords(document_id,
                                document_name, chunks, document_type,
                                clause_type, risk_level, policy_id),
                                overwrite)],
              ret |-> TRUE, failed |-> delFailed]

\* search_chunks: the formatted results, [] when a call raises
SearchChunks(st, query, document_id, top_k, collection_type, faults) ==
    IF "embed" \in faults \/ "query" \in faults
    THEN <<>>
    ELSE LET where == IF document_id # None /\ document_id # ""
                      THEN document_id ELSE None
             collection == st[SelectCollection(collection_type)]
             results == CollectionQuery(collection, Embedding(query),
                                        top_k, where)
         IN  [i \in 1..Len(results) |->
                [chunk_id         |-> results[i].id,
                 text             |-> results[i].document,
                 metadata         |-> results[i].metadata,
                 similarity_score |-> One - results[i].distance,
                 distance         |-> results[i].distance,
                 collection_type  |-> collection_type]]

\* SearchPolicyAware passing document_id to the policy search as well
SearchPolicyAwareFiltered(st, query, document_id, contract_top_k, policy_top_k, contract_faults, policy_faults) ==
    [contract_chunks |-> SearchChunks(st, query, document_id, contract_top_k,
                                      "contract", contract_faults),
     policy_chunks   |-> SearchChunks(st, query, document_id, policy_top_k,
                                      "policy", policy_faults),
     query           |-> query]

\* search_policy_aware: search_chunks never raises, so the except branch
\* of search_policy_aware is not reachable
SearchPolicyAware(st, query, document_id, contract_top_k, policy_top_k, contract_faults, policy_faults) ==
    [contract_chunks |-> SearchChunks(st, query, document_id, contract_top_k,
                                      "contract", contract_faults),
     policy_chunks   |-> SearchChunks(st, query, None, policy_top_k,
                                      "policy", policy_faults),
     query           |-> query]

\* get_document_info reads self.collection; reading an attribute that
\* __init__ never set raises AttributeError inside the try block
GetDocumentInfo(st, document_id, faults) ==
    IF "collection" \notin VectorStoreAttrs \/ "get" \in faults
    THEN [chunk_count |-> 0, document_name |-> None]
    ELSE LET results == CollectionGet(SelfAttr(st, "collection"), document_id)
             document_names == {results[i].metadata.document_name :
                                   i \in 1..Len(results)}
         IN  IF results = <<>>
             THEN [chunk_count |-> 0, document_name |-> None]
             ELSE [chunk_count   |-> Len(results),
                   document_name |-> CHOOSE n \in document_names : TRUE,
                   document_id   |-> document_id]

\* metadata.get(key, default)
MetadataGet(metadata, key, default) ==
    IF key \in DOMAIN metadata THEN metadata[key] ELSE default

\* _group_documents_by_id: the loop over results['metadatas'] from position
\* i on; documents is the dict built so far, in insertion order
RECURSIVE GroupLoop(_, _, _, _)
GroupLoop(results, i, doc_type, documents) ==
    IF i > Len(results) THEN documents
    ELSE LET metadata == results[i].metadata
             doc_id == metadata.document_id
             entry == [document_id   |-> doc_id,
                       document_name |-> metadata.document_name,
                       document_type |-> doc_type,
                       chunk_count   |-> 0]
             seed == IF doc_type = "policy"
                     THEN entry @@
                          [clause_type |-> MetadataGet(metadata, "clause_type", "general"),
                           risk_level  |-> MetadataGet(metadata, "risk_level", "medium"),
                           policy_id   |-> MetadataGet(metadata, "policy_id", doc_id)]
                     ELSE entry
             seeded == IF \E j \in 1..Len(documents) :
                              documents[j].document_id = doc_id
                       THEN documents ELSE Append(documents, seed)
             k == CHOOSE j \in 1..Len(seeded) : seeded[j].document_id = doc_id
         IN  GroupLoop(results, i + 1, doc_type,
                       [seeded EXCEPT ![k].chunk_count = @ + 1])

GroupDocumentsById(results, doc_type) == GroupLoop(results, 1, doc_type, <<>>)

\* ListDocuments reading the contract collection only
ListDocumentsContractOnly(st, document_type, faults) ==
    IF "get" \in faults
    THEN <<>>
    ELSE LET contract_results == CollectionGet(st.contract, None)
         IN  IF (document_type = None \/ document_type = "contract")
                /\ contract_results # <<>>
             THEN GroupDocumentsById(contract_results, "contract")
             ELSE <<>>

\* list_documents(document_type)
ListDocuments(st, document_type, faults) ==
    IF "get" \in faults
    THEN <<>>
    ELSE LET contract_results == CollectionGet(st.contract, None)
             policy_results == CollectionGet(st.policy, None)
             contract_docs ==
                 IF (document_type = None \/ document_type = "contract")
                    /\ contract_results # <<>>
                 THEN GroupDocumentsById(contract_results, "contract")
                 ELSE <<>>
             policy_docs ==
                 IF (document_type = None \/ document_type = "policy")
                    /\ policy_results # <<>>
                 THEN GroupDocumentsById(policy_results, "policy")
                 ELSE <<>>
         IN  contract_docs \o policy_docs

\* ClearAll emptying the contract collection only
ClearAllContractOnly(st, faults) ==
    IF "reset" \in faults
    THEN [store |-> st, ret |-> FALSE]
    ELSE [store |-> [st EXCEPT !.contract = {}], ret |-> TRUE]

\* clear_all: client.reset() drops the data of both collections
ClearAll(st, faults) ==
    IF "reset" \in faults
    THEN [store |-> st, ret |-> FALSE]
    ELSE [store |-> [contract |-> {}, policy |-> {}], ret |-> TRUE]

(* ---------------------- HTTP handlers (vector_service) ------------------ *)

\* raise HTTPException(status_code=500, detail=...) inside the handler's try
\* block is caught by `except Exception as e` and raised again with
\* detail=str(e)
HTTPException(detail) == [status |-> 500, detail |-> <<"str", detail>>]

\* a returned body
Returned(body) == [status |-> 200, body |-> body]

\* POST /add_document_chunks, given the facade's result
AddResponse(added, document_id, chunks) ==
    IF added.ret
    THEN Returned([success     |-> TRUE,
                   message     |-> <<"Added", Len(chunks)>>,
                   chunk_count |-> GetDocumentInfo(added.store, document_id,
                                                   {}).chunk_count])
    ELSE HTTPException("Failed to add document chunks")

\* DeleteResponse without the else branch
DeleteResponseAlwaysOk(deleted) ==
    Returned([success |-> TRUE, message |-> "Deleted chunks"])

\* DELETE /delete_document/{document_id}, given the facade's result
DeleteResponse(deleted) ==
    IF deleted.ret
    THEN Returned([success |-> TRUE, message |-> "Deleted chunks"])
    ELSE HTTPException("Failed to delete document chunks")

\* DELETE /clear_all, given the facade's result
ClearResponse(cleared) ==
    IF cleared.ret
    THEN Returned([success |-> TRUE, message |-> "Cleared all data"])
    ELSE HTTPException("Failed to clear vector store")

(* -------------------------------- state -------------------------------- *)

VARIABLES
    contract_collection,  \* records of the collection "uploaded_contracts"
    policy_collection,    \* records of the collection "contract_policy"
    res,                  \* the last completed operation: arguments and result
    ops,                  \* handler invocations so far
    calls,                \* add_document_chunks calls in progress, per thread
    order                 \* store steps of the calls in progress, oldest first

vars == <<contract_collection, policy_collection, res, ops, calls, order>>

Store == [contract |-> contract_collection, policy |-> policy_collection]

SetStore(st) ==
    /\ contract_collection' = st.contract
    /\ policy_collection' = st.policy

Threads == {1, 2}

\* after startup_event: both collections created, nothing stored yet
Init ==
    /\ contract_collection = {}
    /\ policy_collection = {}
    /\ res = [op |-> "startup"]
    /\ ops = 0
    /\ calls = [t \in Threads |-> [pc |-> "idle"]]
    /\ order = <<>>

\* the fault sets under which add_document_chunks issues every failing call
AddFaults(chunks) ==
    IF chunks = <<>> THEN {{}, {"delete"}}
    ELSE {{}, {"delete"}, {"embed"}, {"add"}}

(* ------------------ operations, one handler call each ------------------- *)

\* POST /add_document_chunks
AddDocumentChunksRequest(document_id, document_name, chunks, document_type, clause_type, risk_level, policy_id, faults, overwrite) ==
    /\ ops < MaxOps
    /\ LET added == AddDocumentChunks(Store, document_id, document_name,
                        chunks, document_type, clause_type, risk_level,
                        policy_id, faults, overwrite)
       IN  /\ SetStore(added.store)
           /\ res' = [op            |-> "add_document_chunks",
                      document_id   |-> document_id,
                      document_name |-> document_name,
                      chunks        |-> chunks,
                      document_type |-> document_type,
                      clause_type   |-> clause_type,
                      risk_level    |-> risk_level,
                      policy_id     |-> policy_id,
                      failed        |-> added.failed,
                      ret           |-> added.ret,
                      response      |-> AddResponse(added, document_id, chunks)]
    /\ ops' = ops + 1
    /\ UNCHANGED <<calls, order>>

\* DELETE /delete_document/{document_id}: document_type is left to its default
DeleteDocumentRequest(document_id, fails) ==
    /\ ops < MaxOps
    /\ LET deleted == DeleteDocumentChunks(Store, document_id, "contract", fails)
       IN  /\ SetStore(deleted.store)
           /\ res' = [op          |-> "delete_document",
                      document_id |-> document_id,
                      removed     |-> Cardinality(contract_collection)
                                        - Cardinality(deleted.store.contract),
                      failed      |-> IF fails THEN {"delete"} ELSE {},
                      ret         |-> deleted.ret,
                      response    |-> DeleteResponse(deleted)]
    /\ ops' = ops + 1
    /\ UNCHANGED <<calls, order>>

\* DELETE /clear_all
ClearAllRequest(faults) ==
    /\ ops < MaxOps
    /\ LET cleared == ClearAll(Store, faults)
       IN  /\ SetStore(cleared.store)
           /\ res' = [op       |-> "clear_all",
                      dropped  |-> Cardinality(contract_collection)
                                     + Cardinality(policy_collection)
                                     - Cardinality(cleared.store.contract)
                                     - Cardinality(cleared.store.policy),
                      failed   |-> faults,
                      ret      |-> cleared.ret,
                      response |-> ClearResponse(cleared)]
    /\ ops' = ops + 1
    /\ UNCHANGED <<calls, order>>

\* VectorStore.search_chunks (POST /search_chunks with collection_type
\* left to "contract")
SearchChunksCall(query, document_id, top_k, collection_type, faults) ==
    /\ ops < MaxOps
    /\ res' = [op              |-> "search_chunks",
               query           |-> query,
               document_id     |-> document_id,
               top_k           |-> top_k,
               collection_type |-> collection_type,
               failed          |-> faults,
               chunks          |-> SearchChunks(Store, query, document_id,
                                       top_k, collection_type, faults)]
    /\ ops' = ops + 1
    /\ UNCHANGED <<contract_collection, policy_collection, calls, order>>

\* POST /search_policy_aware
SearchPolicyAwareRequest(query, document_id, contract_top_k, policy_top_k, contract_faults, policy_faults) ==
    /\ ops < MaxOps
    /\ res' = [op             |-> "search_policy_aware",
               query          |-> query,
               document_id    |-> document_id,
               contract_top_k |-> contract_top_k,
               policy_top_k   |-> policy_top_k,
               failed         |-> <<contract_faults, policy_faults>>,
               results        |-> SearchPolicyAware(Store, query, document_id,
                                      contract_top_k, policy_top_k,
                                      contract_faults, policy_faults)]
    /\ ops' = ops + 1
    /\ UNCHANGED <<contract_collection, policy_collection, calls, order>>

\* GET /document_info/{document_id}
DocumentInfoRequest(document_id, faults) ==
    /\ ops < MaxOps
    /\ res' = [op          |-> "get_document_info",
               document_id |-> document_id,
               info        |-> GetDocumentInfo(Store, document_id, faults)]
    /\ ops' = ops + 1
    /\ UNCHANGED <<contract_collection, policy_collection, calls, order>>

\* VectorStore.list_documents (GET /list_documents with no document_type)
ListDocumentsCall(document_type, faults) ==
    /\ ops < MaxOps
    /\ res' = [op            |-> "list_documents",
               document_type |-> document_type,
               failed        |-> faults,
               documents     |-> ListDocuments(Store, document_type, faults)]
    /\ ops' = ops + 1
    /\ UNCHANGED <<contract_collection, policy_collection, calls, order>>

AddAny ==
    \E d \in Docs, n \in Names, cs \in ChunkLists, t \in DocTypes :
      \E faults \in AddFaults(cs) :
        \E overwrite \in (IF "delete" \in faults /\ cs # <<>>
                          THEN BOOLEAN ELSE {TRUE}) :
          AddDocumentChunksRequest(d, n, cs, t, None, None, None,
                                   faults, overwrite)

DeleteAny == \E d \in Docs, fails \in BOOLEAN : DeleteDocumentRequest(d, fails)

ClearAny == \E faults \in {{}, {"reset"}} : ClearAllRequest(faults)

SearchAny ==
    \E q \in Queries, d \in Docs \cup {None}, k \in TopKs,
       c \in CollectionTypes, faults \in {{}, {"query"}} :
      SearchChunksCall(q, d, k, c, faults)

PolicyAwareAny ==
    \E q \in Queries, d \in Docs \cup {None}, ck \in TopKs, pk \in TopKs,
       cf \in {{}, {"query"}} :
      SearchPolicyAwareRequest(q, d, ck, pk, cf, {})

InfoAny == \E d \in Docs : DocumentInfoRequest(d, {})

ListAny ==
    \E t \in CollectionTypes \cup {None}, faults \in {{}, {"get"}} :
      ListDocumentsCall(t, faults)

Next ==
    \/ AddAny
    \/ DeleteAny
    \/ ClearAny
    \/ SearchAny
    \/ PolicyAwareAny
    \/ InfoAny
    \/ ListAny

Spec == Init /\ [][Next]_vars

(* ------------- add_document_chunks calls running concurrently ------------ *)
(* Each thread runs one add_document_chunks call; the store steps of the     *)
(* calls (collection.delete, then collection.add) interleave freely, as      *)
(* nothing in VectorStore serialises them.                                   *)

\* a thread enters add_document_chunks
BeginAdd(t, document_id, document_name, chunks, document_type) ==
    /\ calls[t].pc = "idle"
    /\ calls' = [calls EXCEPT ![t] = [pc            |-> "delete",
                                      document_id   |-> document_id,
                                      document_name |-> document_name,
                                      chunks        |-> chunks,
                                      document_type |-> document_type]]
    /\ UNCHANGED <<contract_collection, policy_collection, res, ops, order>>

\* line 128, self._delete_document_chunks(document_id, document_type), then
\* the early return for an empty chunk list
DeleteStep(t, fails) ==
    /\ calls[t].pc = "delete"
    /\ SetStore(DeleteDocumentChunks(Store, calls[t].document_id,
                                     calls[t].document_type, fails).store)
    /\ order' = Append(order, [thread |-> t, step |-> "delete", ok |-> ~fails,
                                upsert |-> TRUE])
    /\ calls' = [calls EXCEPT ![t] =
                    IF calls[t].chunks = <<>>
                    THEN [@ EXCEPT !.pc = "done"] @@ [ret |-> TRUE]
                    ELSE [@ EXCEPT !.pc = "insert"]]
    /\ UNCHANGED <<res, ops>>

\* lines 143-181: the embeddings, then collection.add
InsertStep(t, faults, overwrite) ==
    /\ calls[t].pc = "insert"
    /\ LET c == calls[t]
           collection == SelectCollection(c.document_type)
       IN  IF faults # {}
           THEN UNCHANGED <<contract_collection, policy_collection>>
           ELSE SetStore([Store EXCEPT ![collection] =
                    CollectionAdd(@, NewRecords(c.document_id, c.document_name,
                                      c.chunks, c.document_type,
                                      None, None, None), overwrite)])
    /\ order' = Append(order, [thread |-> t, step |-> "insert",
                                ok |-> faults = {}, upsert |-> overwrite])
    /\ calls' = [calls EXCEPT ![t] =
                    [@ EXCEPT !.pc = "done"] @@ [ret |-> faults = {}]]
    /\ UNCHANGED <<res, ops>>

BeginAny ==
    \E t \in Threads, d \in Docs, n \in Names, cs \in ChunkLists,
       dt \in DocTypes :
      BeginAdd(t, d, n, cs, dt)

DeleteStepAny == \E t \in Threads, fails \in BOOLEAN : DeleteStep(t, fails)

InsertStepAny ==
    \E t \in Threads, faults \in {{}, {"embed"}, {"add"}},
       overwrite \in BOOLEAN :
      InsertStep(t, faults, overwrite)

NextConc == BeginAny \/ DeleteStepAny \/ InsertStepAny

SpecConc == Init /\ [][NextConc]_vars

(* ------------- add_document_chunks with unvalidated fields -------------- *)

\* DocumentChunksRequest.document_type is a plain str: any string is accepted
DocTypeStrings == {"contract", "policy", "memo"}

\* (clause_type, risk_level, policy_id) of a request: Optional[str] fields,
\* absent (None), empty or given
PolicyFields == {<<None, None, None>>,
                 <<"liability", "high", "p1">>,
                 <<None, "high", None>>,
                 <<"", None, None>>}

AddTypedAny ==
    \E d \in Docs, n \in Names, cs \in ChunkLists, t \in DocTypeStrings,
       f \in PolicyFields :
      AddDocumentChunksRequest(d, n, cs, t, f[1], f[2], f[3], {}, TRUE)

NextTyped == AddTypedAny \/ DeleteAny \/ ClearAny

SpecTyped == Init /\ [][NextTyped]_vars

(* ------------- add_document_chunks with several failing calls ---------- *)

\* AddFaults, and the delete failing together with a later call
AddFaultSets(chunks) ==
    IF chunks = <<>> THEN AddFaults(chunks)
    ELSE AddFaults(chunks) \cup {{"delete", "embed"}, {"delete", "add"}}

AddFaultyAny ==
    \E d \in Docs, n \in Names, cs \in ChunkLists, t \in DocTypes :
      \E faults \in AddFaultSets(cs) :
        \E overwrite \in (IF faults = {"delete"} /\ cs # <<>>
                          THEN BOOLEAN ELSE {TRUE}) :
          AddDocumentChunksRequest(d, n, cs, t, None, None, None,
                                   faults, overwrite)

NextFaulty == AddFaultyAny \/ DeleteAny \/ ClearAny

SpecFaulty == Init /\ [][NextFaulty]_vars

TypeOK ==
    /\ \A r \in contract_collection \cup policy_collection :
          /\ r.id = ChunkId(r.metadata.document_id, r.metadata.chunk_index)
          /\ r.metadata.document_id \in Docs
    /\ ops \in 0..MaxOps

(* ------------------------------ properties ------------------------------ *)

\* the chunks stored in a collection for one document
ChunksOf(coll, document_id) ==
    {r \in coll : r.metadata.document_id = document_id}

Min(a, b) == IF a < b THEN a ELSE b

\* C1: once add_document_chunks(D, name, cs, T) returns True, the collection
\* selected by T holds for D exactly the chunks D_chunk_0 .. D_chunk_{len(cs)-1}
\* with the new texts, and nothing an earlier add wrote (nothing at all when
\* cs is empty).
C1_AddReplacesChunks ==
    (res.op = "add_document_chunks" /\ res.ret)
    => {<<r.id, r.document>> :
            r \in ChunksOf(Store[SelectCollection(res.document_type)],
                           res.document_id)}
       = {<<ChunkId(res.document_id, i - 1), res.chunks[i]>> :
            i \in 1..Len(res.chunks)}

\* C2: get_document_info(D) reports the number of chunks stored for D in the
\* contract collection, and their document_name; the chunk_count in the
\* response to a successful add of n chunks to the contract collection is n.
C2_DocumentInfoCountsChunks ==
    /\ res.op = "get_document_info"
       => LET stored == ChunksOf(contract_collection, res.document_id)
          IN  /\ res.info.chunk_count = Cardinality(stored)
              /\ stored # {} =>
                   \E r \in stored :
                      res.info.document_name = r.metadata.document_name
    /\ (/\ res.op = "add_document_chunks"
        /\ res.ret
        /\ res.failed = {}
        /\ SelectCollection(res.document_type) = "contract")
       => res.response.body.chunk_count = Len(res.chunks)

\* the summary entries of a listing for one document id
EntriesFor(documents, document_id) ==
    {j \in 1..Len(documents) : documents[j].document_id = document_id}

\* a listing whose own store reads succeeded, taken with no type filter
ListedAll ==
    /\ res.op = "list_documents"
    /\ res.document_type = None
    /\ res.failed = {}

\* C3 as stated: list_documents() with no filter returns exactly one entry
\* per distinct document_id stored across both collections, and the entry's
\* chunk_count is the number of chunks stored for that document_id.
C3_OneEntryPerDocumentId ==
    ListedAll
    => \A d \in Docs :
         LET stored == Cardinality(ChunksOf(contract_collection, d))
                       + Cardinality(ChunksOf(policy_collection, d))
             entries == EntriesFor(res.documents, d)
         IN  /\ Cardinality(entries) = IF stored > 0 THEN 1 ELSE 0
             /\ \A j \in entries : res.documents[j].chunk_count = stored

\* C3, amended: list_documents() with no filter returns exactly one entry
\* per document_id and collection in which that id has chunks, labelled with
\* the collection, and the entry's chunk_count is the number of chunks stored
\* for that id in that collection.
C3_OneEntryPerDocumentAndCollection ==
    ListedAll
    => \A d \in Docs, c \in CollectionTypes :
         LET stored == Cardinality(ChunksOf(Store[c], d))
             entries == {j \in EntriesFor(res.documents, d) :
                            res.documents[j].document_type = c}
         IN  /\ Cardinality(entries) = IF stored > 0 THEN 1 ELSE 0
             /\ \A j \in entries : res.documents[j].chunk_count = stored

\* a listing taken while one document id has chunks in both collections
C3_Witness ==
    /\ ListedAll
    /\ \E d \in Docs :
         /\ ChunksOf(contract_collection, d) # {}
         /\ ChunksOf(policy_collection, d) # {}
         /\ Cardinality(EntriesFor(res.documents, d)) = 2
    /\ \E j \in 1..Len(res.documents) : res.documents[j].chunk_count > 1

\* the delete_document handler has reported success
Deleted == res.op = "delete_document" /\ res.ret

C5_ClearThenListIsEmpty ==
    (res.op = "clear_all" /\ res.ret)
    => /\ contract_collection = {}
       /\ policy_collection = {}
       /\ \A t \in CollectionTypes \cup {None}, faults \in {{}, {"get"}} :
             ListDocuments(Store, t, faults) = <<>>

\* clear_all succeeded on a store that held chunks in both collections
C5_Witness ==
    /\ res.op = "clear_all"
    /\ res.ret
    /\ res.dropped > 1
    /\ ops > 2

\* a formatted search result is a record of the given collection
FromCollection(chunk, coll) ==
    \E r \in coll : /\ r.id = chunk.chunk_id
                    /\ r.document = chunk.text
                    /\ r.metadata = chunk.metadata

\* C6: search_policy_aware(query, D, c, p) returns at most c contract chunks,
\* all from the contract collection and all of document D when D is given,
\* and at most p policy chunks from the policy collection, chosen with no
\* document filter: the policy search returns min(p, size of the policy
\* collection) chunks.
C6_PolicyAwareLimitsAndFilters ==
    res.op = "search_policy_aware"
    => LET contract_chunks == res.results.contract_chunks
           policy_chunks == res.results.policy_chunks
       IN  /\ Len(contract_chunks) <= res.contract_top_k
           /\ \A i \in 1..Len(contract_chunks) :
                 /\ FromCollection(contract_chunks[i], contract_collection)
                 /\ res.document_id # None =>
                      contract_chunks[i].metadata.document_id = res.document_id
           /\ Len(policy_chunks) <= res.policy_top_k
           /\ \A i \in 1..Len(policy_chunks) :
                 FromCollection(policy_chunks[i], policy_collection)
           /\ res.failed[2] = {} =>
                 Len(policy_chunks) = Min(res.policy_top_k,
                                          Cardinality(policy_collection))

\* a policy-aware search for one document that returned a contract chunk of
\* it and a policy chunk of another document
C6_Witness ==
    /\ res.op = "search_policy_aware"
    /\ res.document_id \in Docs
    /\ res.results.contract_chunks # <<>>
    /\ \E i \in 1..Len(res.results.policy_chunks) :
          res.results.policy_chunks[i].metadata.document_id # res.document_id

\* C7: after add_document_chunks(D, name, cs, "contract") succeeds,
\* search_chunks(query, D, k, "contract") with k >= len(cs) returns every
\* chunk of D, nothing of another document or of the policy collection, at
\* most k results, each with similarity_score = 1 - distance.
C7_SearchFindsAddedChunks ==
    (res.op = "add_document_chunks" /\ res.ret
        /\ res.document_type = "contract")
    => \A q \in Queries, k \in TopKs :
         k >= Len(res.chunks) =>
           LET found == SearchChunks(Store, q, res.document_id, k,
                                     "contract", {})
           IN  /\ {found[i].chunk_id : i \in 1..Len(found)}
                    = Ids(ChunksOf(contract_collection, res.document_id))
               /\ \A i \in 1..Len(found) :
                     /\ FromCollection(found[i], contract_collection)
                     /\ found[i].metadata.document_id = res.document_id
                     /\ found[i].similarity_score = One - found[i].distance
               /\ Len(found) <= k

\* C8: a facade operation whose store call fails reports failure:
\* add_document_chunks, _delete_document_chunks and clear_all return False,
\* search_chunks and list_documents return [].
C8_StoreFailureIsReported ==
    /\ (res.op \in {"add_document_chunks", "delete_document", "clear_all"}
          /\ res.failed \cap StoreCalls # {})
       => res.ret = FALSE
    /\ (res.op = "search_chunks" /\ res.failed # {}) => res.chunks = <<>>
    /\ (res.op = "list_documents" /\ res.failed # {}) => res.documents = <<>>

\* C9: for add_document_chunks, delete_document and clear_all the response is
\* the 500 error with a detail message whenever the facade returned False,
\* and a body with success = true only when the facade returned True.
C9_FailureIsServerError ==
    res.op \in {"add_document_chunks", "delete_document", "clear_all"}
    => IF res.ret
       THEN /\ res.response.status = 200
            /\ res.response.body.success
       ELSE /\ res.response.status = 500
            /\ "detail" \in DOMAIN res.response
            /\ "body" \notin DOMAIN res.response

\* delete_document answered 500 after collection.delete raised on a store
\* that holds chunks of the document
C9_Witness ==
    /\ res.op = "delete_document"
    /\ ~res.ret
    /\ res.response.status = 500
    /\ ChunksOf(contract_collection, res.document_id) # {}

(* ----------------------- concurrent add calls --------------------------- *)

Done(t) == calls[t].pc = "done"

Other(t) == CHOOSE o \in Threads : o # t

\* the positions in `order` of the store steps of thread t
StepsOf(t) == {i \in 1..Len(order) : order[i].thread = t}

\* the position of thread t's collection.delete
DeleteAt(t) == CHOOSE i \in StepsOf(t) : order[i].step = "delete"

\* both calls are for the same document_id and document_type and have returned
SameDocumentDone ==
    /\ \A t \in Threads : Done(t)
    /\ calls[1].document_id = calls[2].document_id
    /\ calls[1].document_type = calls[2].document_type

\* what is stored for the document of thread t's call, in its collection
StoredFor(t) ==
    {<<r.id, r.document>> :
        r \in ChunksOf(Store[SelectCollection(calls[t].document_type)],
                       calls[t].document_id)}

\* the chunk list of thread t's call, as stored chunks
ListOf(t) ==
    {<<ChunkId(calls[t].document_id, i - 1), calls[t].chunks[i]>> :
        i \in 1..Len(calls[t].chunks)}

\* both calls inserted a list, the lists differ, no step of either raised,
\* and collection.add replaced the records whose ids were present
BothInserted ==
    /\ SameDocumentDone
    /\ \A t \in Threads : calls[t].chunks # <<>> /\ calls[t].ret
    /\ calls[1].chunks # calls[2].chunks
    /\ \A i \in 1..Len(order) : order[i].ok /\ order[i].upsert

OthersOf(coll, d) == {r \in coll : r.metadata.document_id # d}

C12_AddTouchesOnlyChunksOfDInSelected ==
    [][res'.op = "add_document_chunks"
         => IF res'.document_type = "contract"
            THEN /\ policy_collection' = policy_collection
                 /\ OthersOf(contract_collection', res'.document_id)
                      = OthersOf(contract_collection, res'.document_id)
            ELSE /\ contract_collection' = contract_collection
                 /\ OthersOf(policy_collection', res'.document_id)
                      = OthersOf(policy_collection, res'.document_id)]_vars

\* an add of D to the contract collection has stored chunks while D also has
\* chunks in the policy collection and another document has contract chunks
C12_Witness ==
    /\ res.op = "add_document_chunks"
    /\ res.ret
    /\ res.document_type = "contract"
    /\ ChunksOf(contract_collection, res.document_id) # {}
    /\ ChunksOf(policy_collection, res.document_id) # {}
    /\ OthersOf(contract_collection, res.document_id) # {}

(* ------------------------------ C13 ------------------------------------ *)

PolicyKeys == {"clause_type", "risk_level", "policy_id"}

\* the value the claim expects for a policy field: the supplied one, or the
\* default when the field is absent
SuppliedOr(x, default) == IF x = None THEN default ELSE x

\* C13: every contract chunk has document_type "contract"; every policy chunk
\* has document_type "policy" and carries clause_type, risk_level and
\* policy_id; after an add into the policy collection those are the supplied
\* values, or "general", "medium" and the document_id when absent.
C13_MetadataMatchesCollection ==
    /\ \A r \in contract_collection : r.metadata.document_type = "contract"
    /\ \A r \in policy_collection :
          /\ r.metadata.document_type = "policy"
          /\ PolicyKeys \subseteq DOMAIN r.metadata
    /\ (res.op = "add_document_chunks" /\ res.ret
           /\ res.document_type # "contract")
        => \A r \in ChunksOf(policy_collection, res.document_id) :
              /\ PolicyKeys \subseteq DOMAIN r.metadata
              /\ r.metadata.clause_type
                   = SuppliedOr(res.clause_type, "general")
              /\ r.metadata.risk_level = SuppliedOr(res.risk_level, "medium")
              /\ r.metadata.policy_id
                   = SuppliedOr(res.policy_id, res.document_id)

(* ------------------------------ C14 ------------------------------------ *)

\* the collection an add with the given document_type writes to, in a store
SelectedOf(contract, policy, document_type) ==
    IF document_type = "contract" THEN contract ELSE policy

\* C14 as stated: whenever add_document_chunks(D, name, cs, T) returns False,
\* the chunks stored for D in the collection selected by T are the same as
\* before the call.
C14_FailedAddChangesNothing ==
    [][(res'.op = "add_document_chunks" /\ ~res'.ret)
         => ChunksOf(SelectedOf(contract_collection', policy_collection',
                                res'.document_type), res'.document_id)
             = ChunksOf(SelectedOf(contract_collection, policy_collection,
                                   res'.document_type), res'.document_id)]_vars

\* C14 amended: whenever add_document_chunks(D, name, cs, T) returns False,
\* nothing of cs is stored, and the chunks stored for D in the collection
\* selected by T are the same as before when the delete call failed too,
\* and none at all when the delete call succeeded.
C14_FailedAddStoresNothingNew ==
    [][(res'.op = "add_document_chunks" /\ ~res'.ret)
         => ChunksOf(SelectedOf(contract_collection', policy_collection',
                                res'.document_type), res'.document_id)
             = IF "delete" \in res'.failed
               THEN ChunksOf(SelectedOf(contract_collection,
                                        policy_collection,
                                        res'.document_type), res'.document_id)
               ELSE {}]_vars

\* an add for D has returned False after its delete call and a later call
\* failed, and D still has the chunks of an earlier add
C14_Witness ==
    /\ res.op = "add_document_chunks"
    /\ ~res.ret
    /\ "delete" \in res.failed
    /\ ChunksOf(SelectedOf(contract_collection, policy_collection,
                           res.document_type), res.document_id) # {}

====
